---- MODULE Spec2Model ----
(***************************************************************************)
(* RentAnalyzer, main_file_analyzer.py: the booking report pipeline.       *)
(*                                                                         *)
(*   test_normalize_data -> read_excel_file -> normalize_data ->           *)
(*   save2xlsx(full, 'w') -> analyze_stay_days -> save2xlsx(summary) ->    *)
(*   save2xlsx(one sheet per property), all inside one try/except.         *)
(*                                                                         *)
(* Encoding.  Column names are transliterated (TLA+ strings are ASCII):    *)
(*   Obekt = property, Istochnik = source, Summa = amount, Zaezd = arrival,*)
(*   Vyezd = departure, Dohod = income, Mesyac = period,                   *)
(*   Dni_prozhivaniya = stay length.                                       *)
(* A text value (property, sheet name, file name) is a sequence of atoms,  *)
(* the separators "/" and "." being atoms of their own.                    *)
(* A timestamp is a number of hours since 1 January 2025 00:00; NaT is the *)
(* missing timestamp.  A period is the pair <<year, month>>.               *)
(* Money is kept in hundredths: Dohod = Summa * rate, the rate in          *)
(* hundredths (the key "0.85" is 85), and an amount passed through without *)
(* commission is Summa * 100.                                              *)
(***************************************************************************)
EXTENDS Integers, Sequences, FiniteSets, TLC

VARIABLES
    pc,            \* position of the __main__ block
    COMMISSION_RATES, \* AppConfig.COMMISSION_RATES, in iteration order
    today,         \* date.today() as <<year, month>>
    table,         \* the input sheet as stored: [columns, rows]
    df,            \* the DataFrame read_excel_file returned (mutated in place)
    normal_df,     \* result of normalize_data
    stay_days_df,  \* result of analyze_stay_days
    todo,          \* unique_object_list still to be written
    file,          \* result_file on disk: exists, sheets
    file0,         \* history: result_file as it was when the run started
    writer,        \* the ExcelWriter opened by the save2xlsx in progress
    log,           \* logger warnings and printed lines, oldest first
    trace          \* history: the steps executed so far, oldest first

vars == <<pc, COMMISSION_RATES, today, table, df, normal_df,
          stay_days_df, todo, file, file0, writer, log, trace>>

---------------------------------------------------------------------------
(* Bounds of the model *)

MaxRows == 2

MaxCalls == 3

---------------------------------------------------------------------------
(* Values *)

NaT == -1

REQUIRED_COLUMNS == {"Obekt", "Istochnik", "Summa", "Zaezd", "Vyezd"}

\* Code points of the characters property names are built from.
Code(c) ==
    CASE c = "." -> 46
      [] c = "/" -> 47
      [] c = "A" -> 65
      [] c = "B" -> 66
      [] c = "C" -> 67

\* Python's str comparison a < b, on sequences of characters.
RECURSIVE StrLess(_, _)
StrLess(a, b) ==
    IF b = <<>> THEN FALSE
    ELSE IF a = <<>> THEN TRUE
    ELSE IF Code(Head(a)) # Code(Head(b)) THEN Code(Head(a)) < Code(Head(b))
    ELSE StrLess(Tail(a), Tail(b))

\* Days before the first of month m in a year of 365 days.
DaysBeforeMonth == <<0, 31, 59, 90, 120, 151, 181, 212, 243, 273, 304, 334>>

DaysInMonth == <<31, 28, 31, 30, 31, 30, 31, 31, 30, 31, 30, 31>>

\* A date cell of the sheet: empty, text that is no date, or "d.m.y h:00".
NullCell == [kind |-> "null", a |-> 0, b |-> 0, y |-> 0, h |-> 0]

BadCell == [kind |-> "bad", a |-> 0, b |-> 0, y |-> 0, h |-> 0]

DateCell(a, b, y, h) == [kind |-> "date", a |-> a, b |-> b, y |-> y, h |-> h]

\* pd.to_datetime(cell, dayfirst=True, errors='coerce'): the first number is
\* the day, the second the month; anything that is no date becomes NaT.
to_datetime(cell) ==
    IF cell.kind # "date" THEN NaT
    ELSE IF cell.b \notin 1..12 THEN NaT
    ELSE IF cell.a \notin 1..DaysInMonth[cell.b] THEN NaT
    ELSE (((cell.y - 2025) * 365 + DaysBeforeMonth[cell.b] + (cell.a - 1)) * 24) + cell.h

\* Month m (1..12) that holds day-of-year n (0-based), by the calendar table.
MonthOfDay(n) == CHOOSE m \in 1..12 : DaysBeforeMonth[m] <= n /\ n < DaysBeforeMonth[m] + DaysInMonth[m]

\* ts.dt.to_period('M')
to_period(ts) ==
    LET day == ts \div 24
    IN  <<2025 + (day \div 365), MonthOfDay(day % 365)>>

\* (ts.dt.date): the calendar day, the time of day dropped.
dt_date(ts) == IF ts = NaT THEN NaT ELSE ts \div 24

\* (departure - arrival).dt.days: whole days of the difference, rounded down.
dt_days(delta) == delta \div 24

---------------------------------------------------------------------------
(* calculate_income *)

calculate_income_last(row, rates) ==
    LET M == {k \in DOMAIN rates : row.Istochnik \in rates[k].sources}
    IN  IF M = {} THEN row.Summa * 100
        ELSE row.Summa * rates[CHOOSE k \in M : \A j \in M : j <= k].rate_str

RECURSIVE calculate_income_from(_, _, _)
calculate_income_from(row, rates, i) ==
    IF i > Len(rates) THEN row.Summa * 100
    ELSE IF row.Istochnik \in rates[i].sources THEN row.Summa * rates[i].rate_str
    ELSE calculate_income_from(row, rates, i + 1)

calculate_income(row, rates) == calculate_income_from(row, rates, 1)

---------------------------------------------------------------------------
(* DataFrames: [columns |-> set of column names, rows |-> sequence of rows], *)
(* a row being a function from the columns to the cell values.              *)

DataFrame(cols, rows) == [columns |-> cols, rows |-> rows]

EmptyFrame == DataFrame({}, <<>>)

\* row with column c set to v (the column is added when it is new)
WithColumn(row, c, v) == [k \in (DOMAIN row) \cup {c} |-> IF k = c THEN v ELSE row[k]]

---------------------------------------------------------------------------
(* validate_dates *)

InvalidDates(row) == row.Zaezd = NaT \/ row.Vyezd = NaT

\* invalid_mask.sum()
invalid_count(d) == Cardinality({i \in DOMAIN d.rows : InvalidDates(d.rows[i])})

\* the logger.warning calls of validate_dates, as the list of counts logged
validate_dates_warnings_each(d) ==
    [i \in 1..invalid_count(d) |-> 1]

validate_dates_warnings(d) ==
    IF invalid_count(d) > 0 THEN <<invalid_count(d)>> ELSE <<>>

\* df[~invalid_mask]
validate_dates(d) ==
    DataFrame(d.columns, SelectSeq(d.rows, LAMBDA r : ~InvalidDates(r)))

---------------------------------------------------------------------------
(* normalize_data *)

\* order of df.sort_values(['Obekt', 'Zaezd'])
RowLess(r, s) ==
    \/ StrLess(r.Obekt, s.Obekt)
    \/ r.Obekt = s.Obekt /\ r.Zaezd < s.Zaezd

\* The sort is stable: a row goes in after the rows that are not greater.
InsertSorted(r, t, keys) ==
    LET Less(x, y) == IF keys = 2 THEN RowLess(x, y) ELSE StrLess(x.Obekt, y.Obekt)
        k == Cardinality({i \in DOMAIN t : ~Less(r, t[i])})
    IN  SubSeq(t, 1, k) \o <<r>> \o SubSeq(t, k + 1, Len(t))

\* rows sorted by the first `keys` sort columns of ['Obekt', 'Zaezd']
RECURSIVE SortRows(_, _)
SortRows(s, keys) ==
    IF s = <<>> THEN <<>>
    ELSE InsertSorted(s[Len(s)], SortRows(SubSeq(s, 1, Len(s) - 1), keys), keys)

sort_values_by_object_only(d) == DataFrame(d.columns, SortRows(d.rows, 1))

sort_values(d) == DataFrame(d.columns, SortRows(d.rows, 2))

\* line 72: the required columns the table lacks
missing_columns_first_only(d) ==
    LET m == REQUIRED_COLUMNS \ d.columns
    IN  IF m = {} THEN {} ELSE {CHOOSE c \in m : TRUE}

missing_columns(d) == REQUIRED_COLUMNS \ d.columns

\* lines 77-81, done in place on the caller's table: the income column, then
\* both date columns parsed
with_income_and_dates(d, rates) ==
    DataFrame(d.columns \cup {"Dohod"},
        [i \in DOMAIN d.rows |->
            [WithColumn(d.rows[i], "Dohod", calculate_income(d.rows[i], rates))
                EXCEPT !.Zaezd = to_datetime(@), !.Vyezd = to_datetime(@)]])

\* line 87
with_period(d) ==
    DataFrame(d.columns \cup {"Mesyac"},
        [i \in DOMAIN d.rows |->
            WithColumn(d.rows[i], "Mesyac", to_period(d.rows[i].Zaezd))])

\* line 93
with_stay_days(d) ==
    DataFrame(d.columns \cup {"Dni_prozhivaniya"},
        [i \in DOMAIN d.rows |->
            WithColumn(d.rows[i], "Dni_prozhivaniya",
                       dt_days(d.rows[i].Vyezd - d.rows[i].Zaezd))])

positive_stay_or_zero(d) ==
    DataFrame(d.columns, SelectSeq(d.rows, LAMBDA r : r.Dni_prozhivaniya >= 0))

\* line 96
positive_stay(d) ==
    DataFrame(d.columns, SelectSeq(d.rows, LAMBDA r : r.Dni_prozhivaniya > 0))

\* The whole function: [raised, missing, df (the caller's table afterwards),
\* warnings, result].
normalize_data(d, rates) ==
    IF missing_columns(d) # {}
    THEN [raised |-> TRUE, missing |-> missing_columns(d), df |-> d,
          warnings |-> <<>>, result |-> EmptyFrame]
    ELSE LET parsed == with_income_and_dates(d, rates)
         IN  [raised |-> FALSE, missing |-> {}, df |-> parsed,
              warnings |-> validate_dates_warnings(parsed),
              result |-> positive_stay(with_stay_days(sort_values(
                            with_period(validate_dates(parsed)))))]

---------------------------------------------------------------------------
(* analyze_stay_days *)

PeriodLess(p, q) == p[1] < q[1] \/ (p[1] = q[1] /\ p[2] < q[2])

KeyLess(k, l) == StrLess(k[1], l[1]) \/ (k[1] = l[1] /\ PeriodLess(k[2], l[2]))

\* the group keys in ascending order (groupby sorts its keys)
RECURSIVE SortKeys(_)
SortKeys(K) ==
    IF K = {} THEN <<>>
    ELSE LET least == CHOOSE k \in K : \A l \in K : ~KeyLess(l, k)
         IN  <<least>> \o SortKeys(K \ {least})

RECURSIVE SumColumn(_, _)
SumColumn(rows, c) ==
    IF rows = <<>> THEN 0 ELSE Head(rows)[c] + SumColumn(Tail(rows), c)

\* lines 107-113: one row per (Obekt, Mesyac), both value columns summed
groupby_sum(d) ==
    LET keys == SortKeys({<<d.rows[i].Obekt, d.rows[i].Mesyac>> : i \in DOMAIN d.rows})
        Group(k) == SelectSeq(d.rows, LAMBDA r : r.Obekt = k[1] /\ r.Mesyac = k[2])
    IN  DataFrame({"Obekt", "Mesyac", "Dni_prozhivaniya", "Dohod"},
            [i \in DOMAIN keys |->
                [Obekt |-> keys[i][1], Mesyac |-> keys[i][2],
                 Dni_prozhivaniya |-> SumColumn(Group(keys[i]), "Dni_prozhivaniya"),
                 Dohod |-> SumColumn(Group(keys[i]), "Dohod")]])

\* line 117: f"{today.year}-{today.month}", the month not zero-padded
target_date(t) == <<t[1], "-", t[2]>>

\* the Period a Period column reads a "year-month" string as, when compared
PeriodOfString(text) == <<text[1], text[3]>>

analyze_stay_days_month_only(d, t) ==
    LET g == groupby_sum(d)
    IN  DataFrame(g.columns,
            SelectSeq(g.rows, LAMBDA r : r.Mesyac[2] = PeriodOfString(target_date(t))[2]))

analyze_stay_days(d, t) ==
    LET g == groupby_sum(d)
    IN  DataFrame(g.columns,
            SelectSeq(g.rows, LAMBDA r : r.Mesyac = PeriodOfString(target_date(t))))

---------------------------------------------------------------------------
(* save2xlsx *)

result_file == <<"Spisok Bronirovanij", ".", "xlsx">>

SummarySheet == <<"Analiz prod-ti prebyvaniya">>

\* text.split('.')[0]
split0(text) ==
    LET dots == {i \in DOMAIN text : text[i] = "."}
    IN  IF dots = {} THEN text
        ELSE SubSeq(text, 1, (CHOOSE i \in dots : \A j \in dots : i <= j) - 1)

\* sheet_name.replace('/', '.')
replace(sheet_name) ==
    [i \in DOMAIN sheet_name |-> IF sheet_name[i] = "/" THEN "." ELSE sheet_name[i]]

normalize_df_dates(d) ==
    DataFrame(d.columns,
        [i \in DOMAIN d.rows |->
            [d.rows[i] EXCEPT !.Zaezd = dt_date(@), !.Vyezd = dt_date(@)]])

\* lines 140-143
df_copy(d) ==
    IF "Zaezd" \in d.columns /\ "Vyezd" \in d.columns THEN normalize_df_dates(d) ELSE d

effective_mode_as_asked(mode, exists) == mode

\* lines 146-147
effective_mode(mode, exists) == IF mode = "a" /\ ~exists THEN "w" ELSE mode

NoFile == [exists |-> FALSE, sheets |-> <<>>]

ClosedWriter ==
    [open |-> FALSE, mode |-> "", book |-> <<>>, sheet_name |-> <<>>, frame |-> EmptyFrame]

SheetNames(book) == {book[i].name : i \in DOMAIN book}

LogEntry(kind, n, sheet, exc, cols) ==
    [kind |-> kind, n |-> n, sheet |-> sheet, exc |-> exc, cols |-> cols]

\* An exception leaves the function; in the __main__ block (failpc = "failed")
\* the except clause of line 185 prints it.
Raise(exc, cols, failpc) ==
    <<LogEntry("raise", 0, <<>>, exc, cols)>>
    \o (IF failpc = "failed" THEN <<LogEntry("print_error", 0, <<>>, exc, cols)>> ELSE <<>>)

Step(op, sheet, mode, eff) == [op |-> op, sheet |-> sheet, mode |-> mode, eff |-> eff]

book_on_open_keep_nothing(mode, f) == <<>>

\* The workbook an ExcelWriter starts from: empty in mode 'w', the file's
\* sheets in mode 'a'.
book_on_open(mode, f) == IF mode = "w" THEN <<>> ELSE f.sheets

\* save2xlsx up to the ExcelWriter being open (lines 140-151).  Opening may
\* fail (the file is locked or not writable): the file is then left as it was.
save2xlsx_open(d, sheet_name, mode, failpc) ==
    LET eff == effective_mode(mode, file.exists)
        fallback == IF eff # mode
                    THEN <<LogEntry("fallback", 0, sheet_name, "", {})>> ELSE <<>>
    IN  /\ ~writer.open
        /\ trace' = Append(trace, Step("save", sheet_name, mode, eff))
        /\ \/ /\ log' = log \o fallback \o Raise("IOError(PermissionError)", {}, failpc)
              /\ pc' = failpc
              /\ UNCHANGED <<file, writer>>
           \/ /\ writer' = [open |-> TRUE, mode |-> eff,
                            book |-> book_on_open(eff, file),
                            sheet_name |-> sheet_name, frame |-> df_copy(d)]
              /\ file' = IF eff = "w" THEN [exists |-> TRUE, sheets |-> <<>>] ELSE file
              /\ log' = log \o fallback
              /\ UNCHANGED pc

\* to_excel and the end of the with block (lines 152-155): the workbook is
\* saved and the handle closed, whether to_excel raised or not.  to_excel
\* raises when the workbook already holds a sheet of that name.
save2xlsx_close(okpc, failpc) ==
    LET name == replace(writer.sheet_name)
    IN  /\ writer.open
        /\ writer' = ClosedWriter
        /\ UNCHANGED trace
        /\ IF name \in SheetNames(writer.book)
           THEN /\ file' = [exists |-> TRUE, sheets |-> writer.book]
                /\ log' = log \o Raise("IOError(ValueError)", {}, failpc)
                /\ pc' = failpc
           ELSE /\ file' = [exists |-> TRUE,
                            sheets |-> Append(writer.book,
                                              [name |-> name, frame |-> writer.frame])]
                /\ log' = Append(log, LogEntry("saved", 0, writer.sheet_name, "", {}))
                /\ pc' = okpc

---------------------------------------------------------------------------
(* The __main__ block (lines 162-186) *)

data == <<COMMISSION_RATES, today, table, file0>>

\* line 168: the self-test passes or raises (its fixture is configuration)
TestNormalizeData ==
    /\ pc = "test"
    /\ trace' = Append(trace, Step("test", <<>>, "", ""))
    /\ \/ /\ pc' = "read"
          /\ UNCHANGED log
       \/ /\ pc' = "failed"
          /\ log' = log \o Raise("AssertionError", {}, "failed")
    /\ UNCHANGED <<data, df, normal_df, stay_days_df, todo, file, writer>>

\* line 171, read_excel_file (lines 52-63)
ReadExcelFile ==
    /\ pc = "read"
    /\ trace' = Append(trace, Step("read", <<>>, "", ""))
    /\ \/ /\ pc' = "failed"
          /\ log' = log \o Raise("FileNotFoundError", {}, "failed")
          /\ UNCHANGED df
       \/ /\ pc' = "failed"
          /\ log' = log \o Raise("Exception", {}, "failed")
          /\ UNCHANGED df
       \/ /\ pc' = "normalize"
          /\ df' = table
          /\ UNCHANGED log
    /\ UNCHANGED <<data, normal_df, stay_days_df, todo, file, writer>>

\* line 172
NormalizeData ==
    /\ pc = "normalize"
    /\ trace' = Append(trace, Step("normalize", <<>>, "", ""))
    /\ LET r == normalize_data(df, COMMISSION_RATES)
       IN  /\ df' = r.df
           /\ IF r.raised
              THEN /\ pc' = "failed"
                   /\ log' = log \o [i \in DOMAIN r.warnings |->
                                        LogEntry("warning", r.warnings[i], <<>>, "", {})]
                                 \o Raise("ValueError", r.missing, "failed")
                   /\ UNCHANGED normal_df
              ELSE /\ pc' = "save_full"
                   /\ log' = log \o [i \in DOMAIN r.warnings |->
                                        LogEntry("warning", r.warnings[i], <<>>, "", {})]
                   /\ normal_df' = r.result
    /\ UNCHANGED <<data, stay_days_df, todo, file, writer>>

\* line 173
SaveFullOpen ==
    /\ pc = "save_full"
    /\ save2xlsx_open(normal_df, split0(result_file), "w", "failed")
    /\ UNCHANGED <<data, df, normal_df, stay_days_df, todo>>

SaveFullClose ==
    /\ pc = "save_full"
    /\ save2xlsx_close("analyze", "failed")
    /\ UNCHANGED <<data, df, normal_df, stay_days_df, todo>>

\* line 176
AnalyzeStayDays ==
    /\ pc = "analyze"
    /\ trace' = Append(trace, Step("analyze", <<>>, "", ""))
    /\ stay_days_df' = analyze_stay_days(normal_df, today)
    /\ pc' = "save_summary"
    /\ UNCHANGED <<data, df, normal_df, todo, file, writer, log>>

\* line 177
SaveSummaryOpen ==
    /\ pc = "save_summary"
    /\ save2xlsx_open(stay_days_df, SummarySheet, "a", "failed")
    /\ UNCHANGED <<data, df, normal_df, stay_days_df, todo>>

SaveSummaryClose ==
    /\ pc = "save_summary"
    /\ save2xlsx_close("unique", "failed")
    /\ UNCHANGED <<data, df, normal_df, stay_days_df, todo>>

RECURSIVE sorted_descending(_)
sorted_descending(S) ==
    IF S = {} THEN <<>>
    ELSE LET most == CHOOSE x \in S : \A y \in S : ~StrLess(x, y)
         IN  <<most>> \o sorted_descending(S \ {most})

\* sorted(values): ascending by str comparison
RECURSIVE sorted(_)
sorted(S) ==
    IF S = {} THEN <<>>
    ELSE LET least == CHOOSE x \in S : \A y \in S : ~StrLess(y, x)
         IN  <<least>> \o sorted(S \ {least})

\* normal_df['Obekt'].unique()
unique(d) == {d.rows[i].Obekt : i \in DOMAIN d.rows}

\* line 180
UniqueObjectList ==
    /\ pc = "unique"
    /\ trace' = Append(trace, Step("unique", <<>>, "", ""))
    /\ todo' = sorted(unique(normal_df))
    /\ pc' = "save_object"
    /\ UNCHANGED <<data, df, normal_df, stay_days_df, file, writer, log>>

\* line 182: normal_df[normal_df['Obekt'] == unique_object]
filtered_df(d, unique_object) ==
    DataFrame(d.columns, SelectSeq(d.rows, LAMBDA r : r.Obekt = unique_object))

\* lines 181-183, one turn of the loop
SaveObjectOpen ==
    /\ pc = "save_object"
    /\ todo # <<>>
    /\ save2xlsx_open(filtered_df(normal_df, Head(todo)), Head(todo), "a", "failed")
    /\ UNCHANGED <<data, df, normal_df, stay_days_df, todo>>

SaveObjectClose ==
    /\ pc = "save_object"
    /\ save2xlsx_close("save_object", "failed")
    /\ todo' = IF pc' = "failed" THEN todo ELSE Tail(todo)
    /\ UNCHANGED <<data, df, normal_df, stay_days_df>>

\* the loop ends and the try block with it
Finish ==
    /\ pc = "save_object"
    /\ todo = <<>>
    /\ ~writer.open
    /\ pc' = "done"
    /\ UNCHANGED <<data, df, normal_df, stay_days_df, todo, file, writer, log, trace>>

Next ==
    \/ TestNormalizeData
    \/ ReadExcelFile
    \/ NormalizeData
    \/ SaveFullOpen
    \/ SaveFullClose
    \/ AnalyzeStayDays
    \/ SaveSummaryOpen
    \/ SaveSummaryClose
    \/ UniqueObjectList
    \/ SaveObjectOpen
    \/ SaveObjectClose
    \/ Finish

---------------------------------------------------------------------------
(* Inputs *)

SeqsUpTo(S, n) == UNION {[1..k -> S] : k \in 0..n}

Row(o, s, a, z, v) == [Obekt |-> o, Istochnik |-> s, Summa |-> a, Zaezd |-> z, Vyezd |-> v]

Restrict(row, cols) == [c \in cols |-> row[c]]

\* the table of the spec's scenario: {"0.85": {"Booking.com"}}
ScenarioRates == <<[rate_str |-> 85, sources |-> {"Booking.com"}]>>

RateKeys == {85, 90}

RateSources == SUBSET {"Booking.com", "Airbnb"}

\* rate tables: a dict has no key twice
RateTables ==
    {t \in UNION {[1..k -> [rate_str : RateKeys, sources : RateSources]] : k \in 0..2} :
        \A i, j \in DOMAIN t : i # j => t[i].rate_str # t[j].rate_str}

Props == {<<"A">>, <<"A", ".", "B">>, <<"A", "/", "B">>}

\* a file left by an earlier run
OldFile ==
    [exists |-> TRUE,
     sheets |-> <<[name |-> split0(result_file), frame |-> EmptyFrame],
                  [name |-> <<"A">>, frame |-> EmptyFrame],
                  [name |-> <<"Old">>, frame |-> EmptyFrame]>>]

IncomeRows ==
    {Row(<<"A">>, s, a, DateCell(1, 3, 2025, 0), DateCell(3, 3, 2025, 0)) :
        s \in {"Booking.com", "Airbnb", "Direct"}, a \in {1000, 3}}

ArrivalCells ==
    {NullCell, DateCell(1, 3, 2025, 12), DateCell(2, 3, 2025, 0), DateCell(1, 4, 2025, 0)}

DepartureCells ==
    {BadCell, DateCell(2, 3, 2025, 0), DateCell(2, 4, 2025, 0), DateCell(31, 2, 2025, 0)}

DateRows ==
    {Row(o, "Booking.com", 1000, z, v) :
        o \in {<<"A">>, <<"A", ".", "B">>}, z \in ArrivalCells, v \in DepartureCells}

SheetRows ==
    {Row(o, "Booking.com", a, z, DateCell(2, 4, 2025, 0)) :
        o \in Props, a \in {1000, 3},
        z \in {DateCell(1, 3, 2025, 0), DateCell(1, 4, 2025, 0)}}

Todays == {<<2025, 3>>, <<2025, 4>>, <<2026, 3>>}

InitRun ==
    /\ pc = "test"
    /\ file0 = file
    /\ df = EmptyFrame
    /\ normal_df = EmptyFrame
    /\ stay_days_df = EmptyFrame
    /\ todo = <<>>
    /\ writer = ClosedWriter
    /\ log = <<>>
    /\ trace = <<>>

\* every rate table, rows of every source
InitIncome ==
    /\ COMMISSION_RATES \in RateTables
    /\ today = <<2025, 3>>
    /\ file = NoFile
    /\ table \in {DataFrame(REQUIRED_COLUMNS, rows) : rows \in SeqsUpTo(IncomeRows, MaxRows)}

\* rows with empty, unparseable, inverted and same-day dates
InitDates ==
    /\ COMMISSION_RATES = ScenarioRates
    /\ today = <<2025, 3>>
    /\ file = NoFile
    /\ table \in {DataFrame(REQUIRED_COLUMNS, rows) : rows \in SeqsUpTo(DateRows, MaxRows)}

\* three rows in any order: two properties, a same-day stay among them
SortingRows ==
    {Row(<<"A", ".", "B">>, "Booking.com", 1000, DateCell(2, 3, 2025, 0), DateCell(2, 4, 2025, 0)),
     Row(<<"A">>, "Booking.com", 1000, DateCell(1, 4, 2025, 0), DateCell(2, 4, 2025, 0)),
     Row(<<"A">>, "Booking.com", 1000, DateCell(2, 3, 2025, 0), DateCell(2, 3, 2025, 0)),
     Row(<<"A">>, "Booking.com", 3, DateCell(1, 3, 2025, 12), DateCell(2, 4, 2025, 0))}

InitSorting ==
    /\ COMMISSION_RATES = ScenarioRates
    /\ today \in {<<2025, 3>>, <<2025, 4>>}
    /\ file = NoFile
    /\ table \in {DataFrame(REQUIRED_COLUMNS, rows) : rows \in [1..3 -> SortingRows]}

\* tables lacking required columns
InitSchema ==
    /\ COMMISSION_RATES = ScenarioRates
    /\ today = <<2025, 3>>
    /\ file \in {NoFile, OldFile}
    /\ table \in {DataFrame(cols, [i \in DOMAIN rows |-> Restrict(rows[i], cols)]) :
                    cols \in (SUBSET REQUIRED_COLUMNS) \ {REQUIRED_COLUMNS},
                    rows \in SeqsUpTo({Row(<<"A">>, "Booking.com", 1000,
                                           NullCell, DateCell(3, 3, 2025, 0))}, 1)}

\* several properties and periods, an output file present or not
InitSheets ==
    /\ COMMISSION_RATES = ScenarioRates
    /\ today \in Todays
    /\ file \in {NoFile, OldFile}
    /\ table \in {DataFrame(REQUIRED_COLUMNS, rows) : rows \in SeqsUpTo(SheetRows, MaxRows)}

Init == (InitIncome \/ InitDates \/ InitSorting \/ InitSchema \/ InitSheets) /\ InitRun

Spec == Init /\ [][Next]_vars

---------------------------------------------------------------------------
(* save2xlsx called on its own: any sheet, any mode, any state of the file *)

WriterSheets == Props

WriterFrames ==
    {EmptyFrame,
     DataFrame({"Obekt", "Zaezd", "Vyezd"},
               <<[Obekt |-> <<"A">>, Zaezd |-> 24 + 12, Vyezd |-> 48]>>)}

Save2xlsxOpen ==
    /\ pc = "caller"
    /\ Len(trace) < MaxCalls
    /\ \E d \in WriterFrames, sheet_name \in WriterSheets, mode \in {"w", "a"} :
           save2xlsx_open(d, sheet_name, mode, "caller")
    /\ UNCHANGED <<data, df, normal_df, stay_days_df, todo>>

Save2xlsxClose ==
    /\ pc = "caller"
    /\ save2xlsx_close("caller", "caller")
    /\ UNCHANGED <<data, df, normal_df, stay_days_df, todo>>

\* the file is removed by someone else between two calls
RemoveFile ==
    /\ pc = "caller"
    /\ ~writer.open
    /\ file.exists
    /\ file' = NoFile
    /\ UNCHANGED <<pc, data, df, normal_df, stay_days_df, todo, writer, log, trace>>

NextWriter == Save2xlsxOpen \/ Save2xlsxClose \/ RemoveFile

InitWriter ==
    /\ pc = "caller"
    /\ COMMISSION_RATES = ScenarioRates
    /\ today = <<2025, 3>>
    /\ table = EmptyFrame
    /\ df = EmptyFrame
    /\ normal_df = EmptyFrame
    /\ stay_days_df = EmptyFrame
    /\ todo = <<>>
    /\ file \in {NoFile, OldFile}
    /\ file0 = file
    /\ writer = ClosedWriter
    /\ log = <<>>
    /\ trace = <<>>

SpecWriter == InitWriter /\ [][NextWriter]_vars

---------------------------------------------------------------------------
(* Properties *)

Did(op) == \E i \in DOMAIN trace : trace[i].op = op

Raised(exc) == \E i \in DOMAIN log : log[i].kind = "raise" /\ log[i].exc = exc

\* normalize_data has returned a result
NormalizeOk == Did("normalize") /\ ~Raised("ValueError")

Buckets(source) ==
    {k \in DOMAIN COMMISSION_RATES : source \in COMMISSION_RATES[k].sources}

\* C1: the income of every record is its amount times the rate of the first
\* bucket, in the table's order, that holds its source, and the amount
\* itself (no commission) when no bucket holds it.  It is so for every row of
\* the table normalize_data was given and for every row it returns.
C1_IncomeFirstMatch ==
    NormalizeOk =>
        /\ Len(df.rows) = Len(table.rows)
        /\ \A i \in DOMAIN df.rows :
              LET raw == table.rows[i]
                  M == Buckets(raw.Istochnik)
              IN  /\ df.rows[i].Istochnik = raw.Istochnik
                  /\ df.rows[i].Summa = raw.Summa
                  /\ M = {} => df.rows[i].Dohod = raw.Summa * 100
                  /\ \A k \in M :
                        (\A j \in M : k <= j) =>
                            df.rows[i].Dohod = raw.Summa * COMMISSION_RATES[k].rate_str
        /\ \A i \in DOMAIN normal_df.rows :
              LET r == normal_df.rows[i]
                  M == Buckets(r.Istochnik)
              IN  /\ M = {} => r.Dohod = r.Summa * 100
                  /\ \A k \in M :
                        (\A j \in M : k <= j) =>
                            r.Dohod = r.Summa * COMMISSION_RATES[k].rate_str

\* a table with a record whose source is in two buckets of different rates
\* and a record whose source is in none, both normalized
C1_Witness ==
    /\ NormalizeOk
    /\ \E i, j \in DOMAIN normal_df.rows :
          /\ Cardinality(Buckets(normal_df.rows[i].Istochnik)) = 2
          /\ normal_df.rows[i].Dohod = normal_df.rows[i].Summa * COMMISSION_RATES[1].rate_str
          /\ Buckets(normal_df.rows[j].Istochnik) = {}
          /\ normal_df.rows[j].Dohod = normal_df.rows[j].Summa * 100

\* the number of input rows whose arrival or departure is empty or no date
UnparseableRows ==
    Cardinality({i \in DOMAIN table.rows :
        to_datetime(table.rows[i].Zaezd) = NaT \/ to_datetime(table.rows[i].Vyezd) = NaT})

\* C2: every record normalize_data returns has an arrival date, a departure
\* date, and a stay length (departure minus arrival, in whole days) above 0.
C2_DatesAndPositiveStay ==
    NormalizeOk =>
        \A i \in DOMAIN normal_df.rows :
            LET r == normal_df.rows[i]
            IN  /\ r.Zaezd # NaT
                /\ r.Vyezd # NaT
                /\ r.Dni_prozhivaniya > 0
                /\ r.Dni_prozhivaniya * 24 <= r.Vyezd - r.Zaezd
                /\ r.Vyezd - r.Zaezd < (r.Dni_prozhivaniya + 1) * 24

\* two rows with good dates, one of them a stay of less than a day: only the
\* other one is returned
C2_Witness ==
    /\ NormalizeOk
    /\ Len(table.rows) = 2
    /\ UnparseableRows = 0
    /\ Len(normal_df.rows) = 1
    /\ \E i \in DOMAIN df.rows :
          df.rows[i].Zaezd < df.rows[i].Vyezd /\ df.rows[i].Vyezd - df.rows[i].Zaezd < 24

\* C3: the result of normalize_data is sorted: along consecutive records the
\* property does not decrease and, the property being equal, the arrival date
\* does not decrease (the rows of non-positive stay having been dropped after
\* the sort).
C3_Sorted ==
    NormalizeOk =>
        \A i \in DOMAIN normal_df.rows :
            i + 1 \in DOMAIN normal_df.rows =>
                LET r == normal_df.rows[i]
                    n == normal_df.rows[i + 1]
                IN  /\ ~StrLess(n.Obekt, r.Obekt)
                    /\ n.Obekt = r.Obekt => r.Zaezd <= n.Zaezd

\* three rows given in descending order, the middle one dropped for its stay
\* of 0 days; the two others returned in ascending order
C3_Witness ==
    /\ NormalizeOk
    /\ Len(table.rows) = 3
    /\ UnparseableRows = 0
    /\ Len(normal_df.rows) = 2
    /\ table.rows[1].Obekt = table.rows[3].Obekt
    /\ to_datetime(table.rows[1].Zaezd) > to_datetime(table.rows[3].Zaezd)
    /\ to_datetime(table.rows[2].Zaezd) = to_datetime(table.rows[2].Vyezd)
    /\ normal_df.rows[1].Zaezd < normal_df.rows[2].Zaezd

\* the sum of column c over the rows of d whose index is in I
RECURSIVE SumOver(_, _, _)
SumOver(I, d, c) ==
    IF I = {} THEN 0
    ELSE LET i == CHOOSE x \in I : TRUE
         IN  d.rows[i][c] + SumOver(I \ {i}, d, c)

\* the records of the normalized dataset of property o in the current period
CurrentRecords(o) ==
    {i \in DOMAIN normal_df.rows :
        normal_df.rows[i].Obekt = o /\ normal_df.rows[i].Mesyac = today}

\* C4: analyze_stay_days returns one row for every property that has a
\* record in the current year-month, no row of any other period or
\* property, and in each row the totals of stay length and income over that
\* property's records of the current period; no row at all when no record
\* falls in the current period.
C4_MonthlySummary ==
    Did("analyze") =>
        LET res == stay_days_df.rows
        IN  /\ \A j \in DOMAIN res :
                  /\ res[j].Mesyac = today
                  /\ CurrentRecords(res[j].Obekt) # {}
                  /\ res[j].Dni_prozhivaniya =
                        SumOver(CurrentRecords(res[j].Obekt), normal_df, "Dni_prozhivaniya")
                  /\ res[j].Dohod = SumOver(CurrentRecords(res[j].Obekt), normal_df, "Dohod")
            /\ \A o \in unique(normal_df) :
                  CurrentRecords(o) # {} =>
                      Cardinality({j \in DOMAIN res : res[j].Obekt = o}) = 1
            /\ (\A o \in unique(normal_df) : CurrentRecords(o) = {}) => res = <<>>

\* three records: two of one property in the current period, summed into one
\* row, and one of another period, left out
C4_Witness ==
    /\ Did("analyze")
    /\ Len(normal_df.rows) = 3
    /\ Len(stay_days_df.rows) = 1
    /\ Cardinality(CurrentRecords(stay_days_df.rows[1].Obekt)) = 2
    /\ stay_days_df.rows[1].Dni_prozhivaniya > normal_df.rows[1].Dni_prozhivaniya
    /\ \E i \in DOMAIN normal_df.rows : normal_df.rows[i].Mesyac # today

\* C5: when the table lacks a required column, normalize_data raises a
\* ValueError naming exactly the required columns that are absent, before it
\* touches the table (no income column, no date parsed, no row dropped, no
\* warning), and the run stops there: nothing is saved and the output file
\* is as it was before the run.
C5_MissingColumns ==
    (Did("normalize") /\ ~(REQUIRED_COLUMNS \subseteq table.columns)) =>
        /\ pc = "failed"
        /\ log = <<LogEntry("raise", 0, <<>>, "ValueError", REQUIRED_COLUMNS \ table.columns),
                   LogEntry("print_error", 0, <<>>, "ValueError", REQUIRED_COLUMNS \ table.columns)>>
        /\ df = table
        /\ normal_df = EmptyFrame
        /\ ~Did("save")
        /\ ~writer.open
        /\ file = file0

\* a table with one row lacking two required columns was refused, an output
\* file of an earlier run being present
C5_Witness ==
    /\ Did("normalize")
    /\ Cardinality(REQUIRED_COLUMNS \ table.columns) = 2
    /\ Len(table.rows) = 1
    /\ file0.exists
    /\ pc = "failed"

\* the warnings logged so far
Warnings == SelectSeq(log, LAMBDA e : e.kind = "warning")

\* the number of input rows with both dates good and a stay of 0 days or less
NonPositiveRows ==
    Cardinality({i \in DOMAIN table.rows :
        /\ to_datetime(table.rows[i].Zaezd) # NaT
        /\ to_datetime(table.rows[i].Vyezd) # NaT
        /\ to_datetime(table.rows[i].Vyezd) - to_datetime(table.rows[i].Zaezd) < 24})

\* C10: normalizing a table that has the required columns raises nothing,
\* whatever its rows; it logs one warning, carrying the number of rows whose
\* arrival or departure is empty or no date, when there is such a row, and no
\* warning otherwise: the rows dropped for a stay of 0 days or less are not
\* reported.
C10_WarningOnlyForNullDates ==
    (Did("normalize") /\ REQUIRED_COLUMNS \subseteq table.columns) =>
        /\ ~Raised("ValueError")
        /\ pc # "failed" \/ Did("save")
        /\ Warnings = IF UnparseableRows > 0
                      THEN <<LogEntry("warning", UnparseableRows, <<>>, "", {})>>
                      ELSE <<>>
        /\ Len(normal_df.rows) = Len(table.rows) - UnparseableRows - NonPositiveRows

\* two rows: one without a date (one warning, count 1) and one same-day stay
\* (dropped without a word)
C10_Witness ==
    /\ NormalizeOk
    /\ Len(table.rows) = 2
    /\ UnparseableRows = 1
    /\ NonPositiveRows = 1
    /\ Len(Warnings) = 1
    /\ Warnings[1].n = 1
    /\ normal_df.rows = <<>>

\* the sheet names of a workbook, in order
NameSeq(book) == [i \in DOMAIN book |-> book[i].name]

HasSheet(f, name, frame) ==
    \E i \in DOMAIN f.sheets : f.sheets[i].name = name /\ f.sheets[i].frame = frame

\* C6: after a run whose load and normalization succeeded (and whose output
\* file could be opened each time), the file holds the sheet of the full
\* normalized dataset, the summary sheet, and for every distinct property a
\* sheet named after it, '/' replaced by '.', holding that property's records.
C6_AllSheetsWritten ==
    (pc \in {"done", "failed"} /\ NormalizeOk /\ ~Raised("IOError(PermissionError)")) =>
        /\ file.exists
        /\ HasSheet(file, split0(result_file), df_copy(normal_df))
        /\ HasSheet(file, SummarySheet, stay_days_df)
        /\ \A o \in unique(normal_df) :
              HasSheet(file, replace(o), df_copy(filtered_df(normal_df, o)))

\* the calls of save2xlsx made so far
Saves == SelectSeq(trace, LAMBDA e : e.op = "save")

\* the sheets reported saved so far, under the names they were written as
SavedNames ==
    LET done == SelectSeq(log, LAMBDA e : e.kind = "saved")
    IN  [i \in DOMAIN done |-> replace(done[i].sheet)]

\* the calls of save2xlsx that have returned or raised
Returned ==
    Len(SelectSeq(log, LAMBDA e :
            e.kind = "saved" \/ (e.kind = "raise" /\ e.exc = "IOError(PermissionError)")
                             \/ (e.kind = "raise" /\ e.exc = "IOError(ValueError)")))

\* C7: a save2xlsx call in append mode on a file that does not exist writes
\* in overwrite mode instead, prints the fallback, raises nothing for it, and
\* (the file being writable) ends with the file existing and holding the
\* requested sheet; a call in append mode on a file that exists keeps every
\* sheet the file held.
C7_AppendFallback ==
    [][ /\ (Len(trace') = Len(trace) + 1 /\ trace'[Len(trace')].mode = "a") =>
              LET call == trace'[Len(trace')]
                  note == LogEntry("fallback", 0, call.sheet, "", {})
              IN  IF file.exists
                  THEN /\ call.eff = "a"
                       /\ file' = file
                       /\ \A i \in DOMAIN log' : log'[i].kind = "fallback" => i \in DOMAIN log
                  ELSE /\ call.eff = "w"
                       /\ Len(log') > Len(log)
                       /\ log'[Len(log) + 1] = note
                       /\ writer'.open => (log' = Append(log, note) /\ writer'.mode = "w")
        /\ (writer.open /\ ~writer'.open /\ trace[Len(trace)].mode = "a") =>
              IF trace[Len(trace)].eff = "w"
              THEN /\ file'.exists
                   /\ HasSheet(file', replace(writer.sheet_name), writer.frame)
                   /\ log' = Append(log, LogEntry("saved", 0, writer.sheet_name, "", {}))
              ELSE /\ file'.exists
                   /\ Len(file'.sheets) >= Len(file.sheets)
                   /\ SubSeq(file'.sheets, 1, Len(file.sheets)) = file.sheets
      ]_vars

\* an append call on a missing file fell back and wrote its sheet, and a later
\* append call added a second sheet beside it
C7_Witness ==
    /\ pc = "caller"
    /\ ~file0.exists
    /\ Len(trace) = 2
    /\ trace[1].mode = "a" /\ trace[1].eff = "w"
    /\ trace[2].mode = "a" /\ trace[2].eff = "a"
    /\ ~writer.open
    /\ Len(file.sheets) = 2
    /\ log[1].kind = "fallback"
    /\ ~Raised("IOError(ValueError)") /\ ~Raised("IOError(PermissionError)")

\* C8: no step of the run is taken once a step has failed (nothing is
\* retried, resumed or written); the failing step ends in the except clause,
\* which prints the error once, and it leaves the output file as it was, with
\* every sheet saved earlier in the run still in it.
C8_StopAtFailure ==
    [][ /\ pc # "failed"
        /\ pc' = "failed" =>
              /\ log'[Len(log')].kind = "print_error"
              /\ Len(SelectSeq(log', LAMBDA e : e.kind = "print_error")) = 1
              /\ log'[Len(log') - 1].kind = "raise"
              /\ log'[Len(log') - 1].exc = log'[Len(log')].exc
              /\ ~writer'.open
              /\ file' = file
              /\ SavedNames # <<>> => NameSeq(file'.sheets) = SavedNames
      ]_vars

\* the run failed at a write after two sheets had been saved, which are still
\* in the file
C8_Witness ==
    /\ pc = "failed"
    /\ Len(Saves) = 3
    /\ Len(SavedNames) = 2
    /\ Len(file.sheets) = 2
    /\ log[Len(log)].kind = "print_error"

\* C9: the calls of save2xlsx come in the order full table (mode 'w'),
\* summary (mode 'a'), then the properties in ascending order (mode 'a');
\* a call begins only when the one before has returned, the writer is open
\* only inside a call and closed when the run ends either way; from the
\* first call on the file holds exactly the sheets saved in this run, in the
\* order they were saved: none of an earlier run, none of this run lost.
C9_WriterOrder ==
    /\ \A i \in DOMAIN Saves :
          /\ i = 1 => Saves[i] = Step("save", split0(result_file), "w", "w")
          /\ i = 2 => Saves[i] = Step("save", SummarySheet, "a", "a")
          /\ i >= 3 => /\ Saves[i].mode = "a"
                       /\ Saves[i].eff = "a"
                       /\ Saves[i].sheet \in unique(normal_df)
                       /\ \A o \in unique(normal_df) :
                             StrLess(o, Saves[i].sheet) =>
                                 \E j \in 3..(i - 1) : Saves[j].sheet = o
                       /\ \A j \in 3..(i - 1) : StrLess(Saves[j].sheet, Saves[i].sheet)
    /\ pc = "done" => Len(Saves) = 2 + Cardinality(unique(normal_df))
    /\ Len(Saves) = Returned + (IF writer.open THEN 1 ELSE 0)
    /\ writer.open => (trace[Len(trace)].op = "save"
                       /\ pc \in {"save_full", "save_summary", "save_object"})
    /\ pc \in {"done", "failed"} => ~writer.open
    /\ IF SavedNames = <<>> /\ ~writer.open
       THEN file = file0
       ELSE file.exists /\ NameSeq(file.sheets) = SavedNames

\* a run over two properties ended well on a file an earlier run had left:
\* four sheets, the old ones gone
C9_Witness ==
    /\ pc = "done"
    /\ file0.exists
    /\ Len(file0.sheets) = 3
    /\ Len(Saves) = 4
    /\ StrLess(Saves[3].sheet, Saves[4].sheet)
    /\ NameSeq(file.sheets) = <<split0(result_file), SummarySheet, Saves[3].sheet, Saves[4].sheet>>

====
